---- MODULE Spec2Model ----
(***************************************************************************)
(* Schnorr / Sigma identification protocol and its Fiat-Shamir file-proof  *)
(* variants, as implemented in the notebooks                               *)
(*   Schnorr-Protocol/schnorr_2.ipynb  (= Sigma-Protocol/sigma_2.ipynb)    *)
(*   Schnorr-Protocol/schnorr_3.ipynb                                      *)
(* Each notebook is a sequence of cells run against module-level globals.  *)
(* The variable cell says which notebook / cell is being executed.         *)
(***************************************************************************)
EXTENDS Integers, Sequences, FiniteSets, Bags, TLC

VARIABLES
    cell,            \* which cell's script is executed
    pc,              \* position in that script
    p, q, g,         \* group parameters (globals)
    x, y,            \* key pair (globals)
    r, t, c, s,      \* nonce, commitment, challenge, response of the last run
    result,          \* last value returned by a verify call
    i,               \* loop index of Example 2
    nonces,          \* history: bag of the r drawn by every commit call
    file_content,    \* content handed to the prover
    checked_content, \* content handed to the verifier
    proof,           \* proof dictionary
    challenge_input, \* bytes hashed to derive the Fiat-Shamir challenge
    oracle,          \* SHA-256: digests of the byte strings hashed so far
    forged,          \* history: the proof was altered after schnorr_prove
    drawn,           \* the p last drawn inside generate_parameters
    fake_r, fake_t, fake_s, \* the cheating prover's values (Example 3)
    h                \* SHA-256(file_content) mod q as computed by the prover

vars == <<cell, pc, p, q, g, x, y, r, t, c, s, result, i, nonces,
          file_content, checked_content, proof, challenge_input, oracle, forged,
          drawn, fake_r, fake_t, fake_s, h>>

-----------------------------------------------------------------------------
(* Program constants *)

\* random.randint(20, 100) in schnorr_2 / sigma_2
RangeLo2 == 20

RangeHi2 == 100

\* random.randint(1000, 10000) in schnorr_3
RangeLo3 == 1000

RangeHi3 == 10000

\* for i in range(3) in Example 2
Executions == 3

(* Bounds of the model *)

\* largest p drawn in schnorr_3 (the code draws up to RangeHi3)
DrawCap3 == 1021

\* number of distinct SHA-256 digests (the code has 2^256)
DigestSpace == 4

\* how far beyond q-1 a challenge or response received by the verifier may lie
Excess == 2

Min(a, b) == IF a <= b THEN a ELSE b

Cells2 == {"schnorr_2"}

\* cell ids of schnorr_3.ipynb
CellPoP == "ac26d2f7"

CellV1 == "fb0197d2"

CellV2 == "7e0e2664"

Cells3 == {CellPoP, CellV1, CellV2}

\* byte strings used as file contents
Contents == {<<65>>, <<66>>}

Digests == 0 .. (DigestSpace - 1)

-----------------------------------------------------------------------------
(* Pure functions *)

\* int(n ** 0.5)
isqrt(n) == CHOOSE k \in 0..n : k * k <= n /\ (k + 1) * (k + 1) > n

\* all(n % i != 0 for i in range(2, int(n**0.5) + 1))
trial_division(n) == \A d \in 2..isqrt(n) : n % d # 0

\* Python's three-argument pow for a non-negative exponent
RECURSIVE pow(_, _, _)
pow(b, e, m) ==
    IF e = 0 THEN 1 % m
    ELSE IF e % 2 = 0
         THEN LET hh == pow(b, e \div 2, m) IN (hh * hh) % m
         ELSE (b * pow(b, e - 1, m)) % m

\* the test of the innermost loop of generate_parameters
generator_test_mut(pp, qq, gg) == pow(gg, qq, pp) = 1

generator_test(pp, qq, gg) ==
    pow(gg, qq, pp) = 1 /\ pow(gg, (pp - 1) \div qq, pp) # 1

\* the smallest element of a non-empty set of numbers (first hit of an ascending loop)
least(S) == CHOOSE a \in S : \A b \in S : a <= b

first_g_last(pp, qq) ==
    LET G == {gg \in 2 .. (pp - 1) : generator_test(pp, qq, gg)}
    IN  IF G = {} THEN 0 ELSE CHOOSE a \in G : \A b \in G : b <= a

\* for g in range(2, p): the first g that passes, 0 when the loop ends without one
first_g(pp, qq) ==
    LET G == {gg \in 2 .. (pp - 1) : generator_test(pp, qq, gg)}
    IN  IF G = {} THEN 0 ELSE least(G)

\* for q in range(2, p): the first (q, g) returned, <<0, 0>> when the loop ends
first_q(pp) ==
    LET Q == {qq \in 2 .. (pp - 1) :
                (pp - 1) % qq = 0 /\ trial_division(qq) /\ first_g(pp, qq) # 0}
    IN  IF Q = {} THEN <<0, 0>> ELSE <<least(Q), first_g(pp, least(Q))>>

search_mut(pp) == first_q(pp)

\* one pass of the while loop for a drawn p: <<q, g>> returned, or <<0, 0>> (loop again)
search(pp) == IF trial_division(pp) THEN first_q(pp) ELSE <<0, 0>>

\* schnorr_response / sigma_response
schnorr_response_mut(pp, qq, gg, xx, rr, cc) == (rr + cc + xx) % qq

schnorr_response_swapped(pp, qq, gg, xx, rr, cc) == (xx + cc * rr) % qq

schnorr_response_minus(pp, qq, gg, xx, rr, cc) == (rr + (qq - cc) * xx) % qq

schnorr_response(pp, qq, gg, xx, rr, cc) == (rr + cc * xx) % qq

\* schnorr_verify / sigma_verify
schnorr_verify_mut(pp, qq, gg, yy, tt, cc, ss) == pow(gg, ss, pp) = tt % pp

schnorr_verify(pp, qq, gg, yy, tt, cc, ss) ==
    LET lhs == pow(gg, ss, pp)
        rhs == (tt * pow(yy, cc, pp)) % pp
    IN  lhs = rhs

\* str(n).encode() for n >= 0: the ASCII bytes of the decimal digits
RECURSIVE str(_)
str(n) == IF n < 10 THEN <<48 + n>> ELSE str(n \div 10) \o <<48 + (n % 10)>>

\* SHA-256 as a random oracle with memory: digests a query of inp may return
Range(f) == {f[a] : a \in DOMAIN f}

sha256(o, inp) == IF inp \in DOMAIN o THEN {o[inp]} ELSE Digests \ Range(o)

\* the oracle after inp was answered with d
remember(o, inp, d) == IF inp \in DOMAIN o THEN o ELSE o @@ (inp :> d)

\* the bytes hashed for the challenge in schnorr_proof_of_possession
challenge_input_pop(tt, yy) == str(tt) \o str(yy)

\* the bytes hashed for the challenge in both schnorr_prove of schnorr_3
challenge_input_prove(tt, hh) == str(tt) \o str(hh)

\* the dictionary returned by schnorr_prove (cell fb0197d2)
proof_v1(tt, cc, ss, yy) ==
    [commitment |-> tt, challenge |-> cc, response |-> ss, public_value |-> yy]

\* the dictionary returned by schnorr_prove (cell 7e0e2664)
proof_v2(tt, cc, ss, yy, hh) ==
    [commitment |-> tt, challenge |-> cc, response |-> ss, public_value |-> yy,
     hash |-> hh]

\* s = (r + c * x) % q inside the schnorr_prove of schnorr_3
prove_response_mut(qq, xx, rr, cc) == (rr + cc) % qq

prove_response(qq, xx, rr, cc) == (rr + cc * xx) % qq

schnorr_verify_v1_bound(pr, hh, pp, qq, gg) ==
    LET lhs == pow(gg, pr.response, pp)
        rhs == (pr.commitment * pow(pr.public_value, (pr.challenge + hh) % qq, pp)) % pp
    IN  lhs = rhs

\* schnorr_verify (cell fb0197d2); hh is the hash recomputed from the content
schnorr_verify_v1(pr, hh, pp, qq, gg) ==
    LET lhs == pow(gg, pr.response, pp)
        rhs == (pr.commitment * pow(pr.public_value, pr.challenge, pp)) % pp
    IN  lhs = rhs

\* schnorr_verify (cell 7e0e2664)
schnorr_verify_v2(pr, hh, pp, qq, gg) ==
    IF hh # pr.hash THEN FALSE
    ELSE LET lhs == pow(gg, pr.response, pp)
             rhs == (pr.commitment * pow(pr.public_value, pr.challenge, pp)) % pp
         IN  lhs = rhs

-----------------------------------------------------------------------------
(* Initial state: nothing has run yet *)

Start(cells) ==
    /\ cell \in cells
    /\ pc = "gen"
    /\ p = 0 /\ q = 0 /\ g = 0 /\ x = 0 /\ y = 0
    /\ r = 0 /\ t = 0 /\ c = 0 /\ s = 0
    /\ result = FALSE
    /\ i = 0
    /\ nonces = EmptyBag
    /\ file_content = <<>>
    /\ checked_content = <<>>
    /\ proof = <<>>
    /\ challenge_input = <<>>
    /\ oracle = <<>>
    /\ forged = FALSE
    /\ drawn = 0
    /\ fake_r = 0 /\ fake_t = 0 /\ fake_s = 0
    /\ h = 0

Init == Start(Cells2 \cup Cells3)

\* schnorr_2.ipynb / sigma_2.ipynb alone
InitInteractive == Start(Cells2)

\* schnorr_3.ipynb alone
InitFile == Start(Cells3)

\* the values random.randint can return for p
Draws == IF cell \in Cells2 THEN RangeLo2 .. RangeHi2
         ELSE RangeLo3 .. Min(RangeHi3, DrawCap3)

-----------------------------------------------------------------------------
(* Setup cells *)

\* one iteration of the while loop of generate_parameters
generate_parameters(pp) ==
    /\ pc = "gen"
    /\ drawn' = pp
    /\ LET qg == search(pp)
       IN  IF qg = <<0, 0>>
           THEN UNCHANGED <<p, q, g, pc>>
           ELSE /\ p' = pp
                /\ q' = qg[1]
                /\ g' = qg[2]
                /\ pc' = "params"
    /\ UNCHANGED <<cell, x, y, r, t, c, s, result, i, nonces, file_content,
                   checked_content, proof, challenge_input, oracle, forged,
                   fake_r, fake_t, fake_s, h>>

keygen(xx) ==
    /\ pc = "params"
    /\ cell # CellPoP
    /\ x' = xx
    /\ y' = pow(g, xx, p)
    /\ pc' = "ready"
    /\ UNCHANGED <<cell, p, q, g, r, t, c, s, result, i, nonces, file_content,
                   checked_content, proof, challenge_input, oracle, forged,
                   drawn, fake_r, fake_t, fake_s, h>>

-----------------------------------------------------------------------------
(* schnorr_2 / sigma_2: Example 1, one run, move by move *)

\* r, t = schnorr_prove(p, q, g, x)
Commit(rr) ==
    /\ cell \in Cells2 /\ pc = "ready"
    /\ r' = rr
    /\ t' = pow(g, rr, p)
    /\ nonces' = nonces (+) SetToBag({rr})
    /\ pc' = "committed"
    /\ UNCHANGED <<cell, p, q, g, x, y, c, s, result, i, file_content,
                   checked_content, proof, challenge_input, oracle, forged,
                   drawn, fake_r, fake_t, fake_s, h>>

\* c = random.randint(0, q-1)
Challenge(cc) ==
    /\ pc = "committed"
    /\ c' = cc
    /\ pc' = "challenged"
    /\ UNCHANGED <<cell, p, q, g, x, y, r, t, s, result, i, nonces, file_content,
                   checked_content, proof, challenge_input, oracle, forged,
                   drawn, fake_r, fake_t, fake_s, h>>

\* s = schnorr_response(p, q, g, x, r, c)
Respond ==
    /\ pc = "challenged"
    /\ s' = schnorr_response(p, q, g, x, r, c)
    /\ pc' = "responded"
    /\ UNCHANGED <<cell, p, q, g, x, y, r, t, c, result, i, nonces, file_content,
                   checked_content, proof, challenge_input, oracle, forged,
                   drawn, fake_r, fake_t, fake_s, h>>

\* result = schnorr_verify(p, q, g, y, t, c, s)
Verify ==
    /\ pc = "responded"
    /\ result' = schnorr_verify(p, q, g, y, t, c, s)
    /\ pc' = "verified"
    /\ UNCHANGED <<cell, p, q, g, x, y, r, t, c, s, i, nonces, file_content,
                   checked_content, proof, challenge_input, oracle, forged,
                   drawn, fake_r, fake_t, fake_s, h>>

(* Example 2: one iteration of the loop body *)
Execution(rr, cc) ==
    /\ cell \in Cells2 /\ pc \in {"ready", "example2"}
    /\ i < Executions
    /\ LET tt == pow(g, rr, p)
           ss == schnorr_response(p, q, g, x, rr, cc)
       IN  /\ r' = rr
           /\ t' = tt
           /\ c' = cc
           /\ s' = ss
           /\ result' = schnorr_verify(p, q, g, y, tt, cc, ss)
    /\ nonces' = nonces (+) SetToBag({rr})
    /\ i' = i + 1
    /\ pc' = "example2"
    /\ UNCHANGED <<cell, p, q, g, x, y, file_content,
                   checked_content, proof, challenge_input, oracle, forged,
                   drawn, fake_r, fake_t, fake_s, h>>

(* Example 3: the cheating prover *)
CheatCommit(rr) ==
    /\ cell \in Cells2 /\ pc = "ready"
    /\ fake_r' = rr
    /\ fake_t' = pow(g, rr, p)
    /\ pc' = "cheat_committed"
    /\ UNCHANGED <<cell, p, q, g, x, y, r, t, c, s, result, i, nonces,
                   file_content, checked_content, proof, challenge_input, oracle,
                   forged, drawn, fake_s, h>>

CheatChallenge(cc) ==
    /\ pc = "cheat_committed"
    /\ c' = cc
    /\ pc' = "cheat_challenged"
    /\ UNCHANGED <<cell, p, q, g, x, y, r, t, s, result, i, nonces, file_content,
                   checked_content, proof, challenge_input, oracle, forged,
                   drawn, fake_r, fake_t, fake_s, h>>

CheatRespond(ss) ==
    /\ pc = "cheat_challenged"
    /\ fake_s' = ss
    /\ pc' = "cheat_responded"
    /\ UNCHANGED <<cell, p, q, g, x, y, r, t, c, s, result, i, nonces,
                   file_content, checked_content, proof, challenge_input, oracle,
                   forged, drawn, fake_r, fake_t, h>>

CheatVerify ==
    /\ pc = "cheat_responded"
    /\ result' = schnorr_verify(p, q, g, y, fake_t, c, fake_s)
    /\ pc' = "cheat_verified"
    /\ UNCHANGED <<cell, p, q, g, x, y, r, t, c, s, i, nonces, file_content,
                   checked_content, proof, challenge_input, oracle, forged,
                   drawn, fake_r, fake_t, fake_s, h>>

(* schnorr_verify called on a transcript of the verifier's counterpart's choosing *)
Receive(tt, cc, ss) ==
    /\ cell \in Cells2 /\ pc = "ready"
    /\ t' = tt
    /\ c' = cc
    /\ s' = ss
    /\ result' = schnorr_verify(p, q, g, y, tt, cc, ss)
    /\ pc' = "received"
    /\ UNCHANGED <<cell, p, q, g, x, y, r, i, nonces, file_content,
                   checked_content, proof, challenge_input, oracle, forged,
                   drawn, fake_r, fake_t, fake_s, h>>

-----------------------------------------------------------------------------
(* schnorr_3: Fiat-Shamir proofs bound to a file *)

\* is_verified = schnorr_proof_of_possession(file_content, p, q, g)
schnorr_proof_of_possession(content, rr) ==
    /\ cell = CellPoP /\ pc = "params"
    /\ \E d1 \in sha256(oracle, content) :
         LET o1  == remember(oracle, content, d1)
             hh  == d1 % q
             xx  == hh
             yy  == pow(g, xx, p)
             tt  == pow(g, rr, p)
             inp == challenge_input_pop(tt, yy)
         IN  \E d2 \in sha256(o1, inp) :
               LET cc  == d2 % q
                   ss  == (rr + cc * xx) % q
                   lhs == pow(g, ss, p)
                   rhs == (tt * pow(yy, cc, p)) % p
               IN  /\ h' = hh /\ x' = xx /\ y' = yy
                   /\ r' = rr /\ t' = tt /\ c' = cc /\ s' = ss
                   /\ challenge_input' = inp
                   /\ oracle' = remember(o1, inp, d2)
                   /\ result' = (lhs = rhs)
    /\ file_content' = content
    /\ pc' = "done"
    /\ UNCHANGED <<cell, p, q, g, i, nonces, checked_content, proof, forged,
                   drawn, fake_r, fake_t, fake_s>>

\* proof = schnorr_prove(file_content, p, q, g, x)   (cells fb0197d2, 7e0e2664)
schnorr_prove(content, rr) ==
    /\ cell \in {CellV1, CellV2} /\ pc = "ready"
    /\ \E d1 \in sha256(oracle, content) :
         LET o1  == remember(oracle, content, d1)
             hh  == d1 % q
             tt  == pow(g, rr, p)
             inp == challenge_input_prove(tt, hh)
         IN  \E d2 \in sha256(o1, inp) :
               LET cc == d2 % q
                   ss == prove_response(q, x, rr, cc)
               IN  /\ h' = hh
                   /\ r' = rr /\ t' = tt /\ c' = cc /\ s' = ss
                   /\ challenge_input' = inp
                   /\ oracle' = remember(o1, inp, d2)
                   /\ proof' = IF cell = CellV1
                               THEN proof_v1(tt, cc, ss, pow(g, x, p))
                               ELSE proof_v2(tt, cc, ss, pow(g, x, p), hh)
    /\ file_content' = content
    /\ nonces' = nonces (+) SetToBag({rr})
    /\ pc' = "proved"
    /\ UNCHANGED <<cell, p, q, g, x, y, result, i, checked_content, forged,
                   drawn, fake_r, fake_t, fake_s>>

\* A party without x rewrites the proof in transit: it picks the challenge c2
\* and sets the commitment to g^s * y^(-c2) mod p, computed from public values
\* only.  The digest of the bytes an honest prover would have hashed for the
\* new commitment is recorded in the oracle.
Forge(c2) ==
    /\ cell \in {CellV1, CellV2} /\ pc = "proved" /\ ~forged
    /\ LET t2  == (pow(g, proof.response, p)
                     * pow(proof.public_value, q - c2, p)) % p
           inp == challenge_input_prove(t2, h)
       IN  /\ \E d \in sha256(oracle, inp) : oracle' = remember(oracle, inp, d)
           /\ challenge_input' = inp
           /\ proof' = [proof EXCEPT !.commitment = t2, !.challenge = c2]
    /\ forged' = TRUE
    /\ UNCHANGED <<cell, pc, p, q, g, x, y, r, t, c, s, result, i, nonces,
                   file_content, checked_content, drawn, fake_r, fake_t, fake_s, h>>

\* schnorr_verify(proof, content, p, q, g)   (cells fb0197d2, 7e0e2664)
VerifyProof(content) ==
    /\ cell \in {CellV1, CellV2} /\ pc \in {"proved", "verified"}
    /\ \E d \in sha256(oracle, content) :
         LET hh == d % q
         IN  /\ oracle' = remember(oracle, content, d)
             /\ result' = IF cell = CellV1
                          THEN schnorr_verify_v1(proof, hh, p, q, g)
                          ELSE schnorr_verify_v2(proof, hh, p, q, g)
    /\ checked_content' = content
    /\ pc' = "verified"
    /\ UNCHANGED <<cell, p, q, g, x, y, r, t, c, s, i, nonces, file_content,
                   proof, challenge_input, forged, drawn, fake_r, fake_t, fake_s, h>>

-----------------------------------------------------------------------------
\* The guard on pc is repeated in front of each quantifier so that the inputs
\* are only enumerated where the operation can run.

\* the setup cell: generate_parameters, keygen
Setup ==
    \/ pc = "gen" /\ \E pp \in Draws : generate_parameters(pp)
    \/ pc = "params" /\ \E xx \in 1 .. (q - 1) : keygen(xx)

\* the example cells of schnorr_2 / sigma_2
Interactive ==
    \/ pc = "ready" /\ \E rr \in 0 .. (q - 1) : Commit(rr)
    \/ pc = "committed" /\ \E cc \in 0 .. (q - 1) : Challenge(cc)
    \/ Respond
    \/ Verify
    \/ pc \in {"ready", "example2"}
         /\ \E rr \in 0 .. (q - 1), cc \in 0 .. (q - 1) : Execution(rr, cc)
    \/ pc = "ready" /\ \E rr \in 0 .. (q - 1) : CheatCommit(rr)
    \/ pc = "cheat_committed" /\ \E cc \in 0 .. (q - 1) : CheatChallenge(cc)
    \/ pc = "cheat_challenged" /\ \E ss \in 0 .. (q - 1) : CheatRespond(ss)
    \/ CheatVerify
    \/ pc = "ready" /\ cell \in Cells2
         /\ \E tt \in 0 .. (p - 1), cc \in 0 .. (q - 1 + Excess),
               ss \in 0 .. (q - 1 + Excess) : Receive(tt, cc, ss)

\* the cells of schnorr_3
FileProofs ==
    \/ pc = "params"
         /\ \E content \in Contents, rr \in 0 .. (q - 1) :
               schnorr_proof_of_possession(content, rr)
    \/ pc = "ready"
         /\ \E content \in Contents, rr \in 0 .. (q - 1) : schnorr_prove(content, rr)
    \/ pc = "proved" /\ \E c2 \in 0 .. (q - 1) : Forge(c2)
    \/ pc \in {"proved", "verified"} /\ \E content \in Contents : VerifyProof(content)

Next == Setup \/ Interactive \/ FileProofs

Spec == Init /\ [][Next]_vars

\* parameter and key generation of every notebook, nothing after it
SpecSetup == Init /\ [][Setup]_vars

\* what one pass of the while loop does for each p that can be drawn
passes == [pp \in RangeLo2 .. Min(RangeHi3, DrawCap3) |-> search(pp)]

\* an iteration of the while loop of generate_parameters that returns
Return ==
    /\ pc = "gen"
    /\ \E pp \in Draws :
          /\ passes[pp] # <<0, 0>>
          /\ drawn' = pp
          /\ p' = pp
          /\ q' = passes[pp][1]
          /\ g' = passes[pp][2]
          /\ pc' = "params"
    /\ UNCHANGED <<cell, x, y, r, t, c, s, result, i, nonces, file_content,
                   checked_content, proof, challenge_input, oracle, forged,
                   fake_r, fake_t, fake_s, h>>

\* random.randint is fair: a value of the range for which the loop returns
\* is not avoided forever
SpecSetupFair == Init /\ [][Setup]_vars /\ WF_vars(Return)

NextInteractive == Setup \/ Interactive

SpecInteractive == InitInteractive /\ [][NextInteractive]_vars

NextFile == Setup \/ FileProofs

SpecFile == InitFile /\ [][NextFile]_vars

-----------------------------------------------------------------------------
(* Properties *)

\* n is a prime number (by definition, not by the code's trial division)
IsPrime(n) == n > 1 /\ \A d \in 2 .. (n - 1) : n % d # 0

\* the public values keygen can return for the current parameters
PublicValues == {pow(g, k, p) : k \in 1 .. (q - 1)}

\* an honest run of the interactive protocol has just been verified
HonestVerified == cell \in Cells2 /\ pc \in {"verified", "example2"}

\* schnorr_verify of schnorr_3 has returned for a proof nobody altered
ProofChecked == cell \in {CellV1, CellV2} /\ pc = "verified" /\ ~forged

\* C1 (completeness): whenever the prover commits to t = g^r mod p for a
\* nonce r in [0,q-1], receives any challenge c in [0,q-1] and answers
\* s = (r + c*x) mod q, the verifier's check returns true.
C1_Completeness ==
    HonestVerified =>
        /\ t = pow(g, r, p)
        /\ s = (r + c * x) % q
        /\ result = TRUE

\* the worked example of the notebook: p=89, q=11, g=2, x=9, y=67, r=0, c=2, s=7
C1_Witness ==
    /\ cell \in Cells2 /\ pc = "verified"
    /\ p = 89 /\ q = 11 /\ g = 2 /\ x = 9 /\ y = 67
    /\ r = 0 /\ t = 1 /\ c = 2 /\ s = 7 /\ result = TRUE

\* C2 (parameter invariant): every (p,q,g) returned by generate_parameters has
\* p prime, q prime, q dividing p-1, 2 <= g < p, g^q = 1 and
\* g^((p-1)/q) # 1 modulo p, and g has multiplicative order exactly q.
C2_ParametersValid ==
    pc # "gen" =>
        /\ IsPrime(p)
        /\ IsPrime(q)
        /\ (p - 1) % q = 0
        /\ 2 <= g /\ g < p
        /\ pow(g, q, p) = 1
        /\ pow(g, (p - 1) \div q, p) # 1
        /\ \A k \in 1 .. (q - 1) : pow(g, k, p) # 1

\* parameters with an odd q have been returned
C2_Witness == pc = "params" /\ p = 89 /\ q = 11 /\ g = 2

\* C3 (tamper detection): a proof made for content C is rejected by
\* schnorr_verify (the version with the field 'hash') for every content
\* different from C.
C3_TamperDetected ==
    (ProofChecked /\ cell = CellV2 /\ checked_content # file_content)
        => result = FALSE

\* C4 (possession round trip): a proof made by schnorr_prove for content C is
\* accepted by schnorr_verify for the same C, whatever nonce was drawn.
C4_RoundTrip ==
    (ProofChecked /\ checked_content = file_content) => result = TRUE

\* a round trip with a response that depends on x
C4_Witness ==
    /\ ProofChecked /\ cell = CellV2 /\ checked_content = file_content
    /\ x > 1 /\ r > 0 /\ proof.challenge > 0 /\ result = TRUE

\* C5 (challenge derived, not accepted): a proof whose 'challenge' field
\* differs from H(t || h) mod q is rejected by schnorr_verify.
C5_ChallengeDerived ==
    (/\ cell \in {CellV1, CellV2} /\ pc = "verified"
     /\ challenge_input = challenge_input_prove(proof.commitment, h)
     /\ proof.challenge # oracle[challenge_input] % q)
        => result = FALSE

\* C6 (range check): schnorr_verify returns false whenever the challenge or
\* the response it is given lies outside [0, q-1].
C6_OutOfRangeRejected ==
    (pc = "received" /\ (c > q - 1 \/ s > q - 1)) => result = FALSE

\* the challenges of [0,q-1] that schnorr_verify accepts for commitment tt and response ss
Accepted(tt, ss) == {cc \in 0 .. (q - 1) : schnorr_verify(p, q, g, y, tt, cc, ss)}

\* C7 (soundness per round): for every commitment and response fixed in
\* advance, at most one challenge of [0,q-1] makes schnorr_verify return true.
C7_AtMostOneChallenge ==
    /\ pc = "received" => Cardinality(Accepted(t, s)) <= 1
    /\ pc \in {"cheat_responded", "cheat_verified"}
          => Cardinality(Accepted(fake_t, fake_s)) <= 1

\* a transcript not produced from x is accepted for exactly one challenge
C7_Witness ==
    /\ pc = "received" /\ result = TRUE /\ c <= q - 1 /\ q > 2
    /\ Accepted(t, s) = {c}

\* C8 (cheating prover): with fake_t = g^fake_r, a random challenge c and a
\* response fake_s drawn from [0,q-1] without x, schnorr_verify returns false.
C8_CheaterRejected == pc = "cheat_verified" => result = FALSE

\* C9 (nonce freshness): no nonce r is returned by two commit calls of one prover.
C9_NonceFresh == \A n \in BagToSet(nonces) : CopiesIn(n, nonces) <= 1

\* the bytes the code hashes for commitment tt, content hash hh and public value yy
HashedBytes(tt, hh, yy) ==
    IF cell = CellPoP THEN challenge_input_pop(tt, yy)
    ELSE challenge_input_prove(tt, hh)

\* C10 (challenge bound to the key): the bytes hashed for the challenge of a
\* proof differ from the bytes hashed for the same commitment t and the same
\* content hash h under any other public value.
C10_ChallengeBindsKey ==
    ((cell = CellPoP /\ pc = "done") \/ (cell \in {CellV1, CellV2} /\ pc = "proved" /\ ~forged))
        => \A y2 \in PublicValues \ {pow(g, x, p)} :
              HashedBytes(t, h, y2) # challenge_input

\* the number written by the decimal digits bs (the inverse of str)
RECURSIVE num(_)
num(bs) ==
    IF Len(bs) = 0 THEN 0
    ELSE 10 * num(SubSeq(bs, 1, Len(bs) - 1)) + (bs[Len(bs)] - 48)

\* the field pairs <<a, b>>, a in A and b in B, whose encoding str(a) + str(b) is inp
Readings(inp, A, B) ==
    {pr \in {<<num(SubSeq(inp, 1, k)), num(SubSeq(inp, k + 1, Len(inp)))>> :
                k \in 1 .. (Len(inp) - 1)} :
        pr[1] \in A /\ pr[2] \in B /\ str(pr[1]) \o str(pr[2]) = inp}

\* a proof has just been produced by one of the three proof-producing functions
ProofMade ==
    \/ cell = CellPoP /\ pc = "done"
    \/ cell \in {CellV1, CellV2} /\ pc = "proved" /\ ~forged

\* C11 (unambiguous encoding): the bytes hashed for the challenge are the
\* encoding of one field pair only: no other pair (t,y) with t, y in [1,p-1],
\* and no other pair (t,h) with t in [1,p-1] and h in [0,q-1], has the same bytes.
C11_EncodingInjective ==
    /\ (ProofMade /\ cell = CellPoP)
          => Readings(challenge_input, 1 .. (p - 1), 1 .. (p - 1)) = {<<t, y>>}
    /\ (ProofMade /\ cell # CellPoP)
          => Readings(challenge_input, 1 .. (p - 1), 0 .. (q - 1)) = {<<t, h>>}

\* C12 (key pair invariant): every secret exponent used to build a proof lies
\* in [1,q-1], its public value is g^x mod p, and that value is not 1; for the
\* x of keygen and for the x schnorr_proof_of_possession derives from the file.
C12_SecretInRange ==
    (pc = "ready" \/ ProofMade) =>
        /\ x \in 1 .. (q - 1)
        /\ y = pow(g, x, p)
        /\ y # 1

\* the hash schnorr_verify recomputed from the content it was given
Recomputed == oracle[checked_content] % q

\* what schnorr_verify (cell 7e0e2664) returns for a proof with the matching
\* hash whose response was changed so that the algebraic identity fails
AlgebraicFailure ==
    schnorr_verify_v2([proof EXCEPT !.hash = Recomputed,
                                    !.response = (proof.response + 1) % q],
                      Recomputed, p, q, g)

\* C13 (distinct content-mismatch outcome): when the hash recomputed from the
\* content differs from proof['hash'], schnorr_verify rejects, and what it
\* returns differs from what it returns for a failed algebraic check.
C13_MismatchDistinct ==
    (cell = CellV2 /\ pc = "verified" /\ Recomputed # proof.hash)
        => (result = FALSE /\ result # AlgebraicFailure)

\* the inverse of a modulo the prime m, for a not divisible by m
inv_mod(a, m) == CHOOSE b \in 1 .. (m - 1) : (a * b) % m = 1

\* C14 (nonce-reuse extraction): if the nonce r of a run with challenge c and
\* response s is used again with any other challenge c2, giving the response
\* s2, then (s - s2) * (c - c2)^-1 mod q is the secret x.
C14_NonceReuseExtracts ==
    HonestVerified =>
        \A c2 \in (0 .. (q - 1)) \ {c} :
            LET s2 == schnorr_response(p, q, g, x, r, c2)
            IN  (((s - s2) % q) * inv_mod((c - c2) % q, q)) % q = x

\* Example 2 has used the same nonce in two executions
C14_Witness ==
    /\ cell \in Cells2 /\ pc = "example2"
    /\ CopiesIn(r, nonces) >= 2 /\ x > 1 /\ q > 2

\* transcripts for challenge cc made without x: any s, t = g^s * y^(-cc) mod p
Simulated(cc) ==
    {<<(pow(g, ss, p) * inv_mod(pow(y, cc, p), p)) % p, cc, ss>> :
        ss \in 0 .. (q - 1)}

\* transcripts for challenge cc made by the prover: any r, t = g^r, s = response
Honest(cc) ==
    {<<pow(g, rr, p), cc, schnorr_response(p, q, g, x, rr, cc)>> :
        rr \in 0 .. (q - 1)}

\* C15 (honest-verifier zero knowledge): for the challenge the verifier sent,
\* the transcripts simulated without x are exactly the prover's transcripts.
C15_Simulatable == (cell \in Cells2 /\ pc = "challenged") => Simulated(c) = Honest(c)

\* a challenge for which the response depends on x, with q transcripts
C15_Witness ==
    /\ cell \in Cells2 /\ pc = "challenged"
    /\ c > 0 /\ x > 1 /\ q > 2
    /\ Cardinality(Simulated(c)) = q

\* some g of [2,p) passes both tests of generate_parameters for modulus pp and order qq
SomeGenerator(pp, qq) ==
    \E gg \in 2 .. (pp - 1) :
        pow(gg, qq, pp) = 1 /\ pow(gg, (pp - 1) \div qq, pp) # 1

\* generate_parameters can return when it draws pp
Suitable(pp) ==
    IsPrime(pp) /\ \E qq \in 2 .. (pp - 1) :
        (pp - 1) % qq = 0 /\ IsPrime(qq) /\ SomeGenerator(pp, qq)

\* C16 (termination under fair draws): generate_parameters eventually returns;
\* whenever it has returned, the p last drawn is the p returned and it is
\* suitable; a drawn p that is composite, or a prime without q and g such as
\* 37 and 73, leaves the loop running.
C16_EventuallyReturns ==
    /\ <>(pc # "gen")
    /\ [][(pc = "gen" /\ pc' # "gen") => Return]_vars
    /\ [](pc # "gen" => (drawn = p /\ Suitable(p)))
    /\ []((drawn # 0 /\ ~Suitable(drawn)) => pc = "gen")
    /\ [](drawn \in {37, 73} => pc = "gen")

\* the loop has returned for a p of [1000,10000]
C16_Witness ==
    /\ pc = "params" /\ cell \in Cells3
    /\ drawn = p /\ p = 1009 /\ q = 7 /\ g = 105

\* C17 (which triple is returned): q is the smallest prime divisor of p-1 for
\* which some g passes, g is the smallest g that passes for it; for p = 3
\* (mod 4) the triple is (p, 2, p-1), and keygen then returns x = 1, y = p-1.
C17_FirstHit ==
    pc # "gen" =>
        /\ IsPrime(q) /\ (p - 1) % q = 0 /\ SomeGenerator(p, q)
        /\ \A q2 \in 2 .. (q - 1) :
              ~(IsPrime(q2) /\ (p - 1) % q2 = 0 /\ SomeGenerator(p, q2))
        /\ pow(g, q, p) = 1 /\ pow(g, (p - 1) \div q, p) # 1
        /\ \A g2 \in 2 .. (g - 1) :
              ~(pow(g2, q, p) = 1 /\ pow(g2, (p - 1) \div q, p) # 1)
        /\ p % 4 = 3 => (q = 2 /\ g = p - 1)
        /\ (p % 4 = 3 /\ pc = "ready") => (x = 1 /\ y = p - 1)

\* the recorded output of sigma_2: p = 79, q = 2, g = 78, x = 1, y = 78
C17_Witness ==
    /\ pc = "ready" /\ cell \in Cells2
    /\ p = 79 /\ q = 2 /\ g = 78 /\ x = 1 /\ y = 78

\* C18 (first forensic example ignores the content): for the proof at hand and
\* the parameters at hand, schnorr_verify of cell fb0197d2 returns the result
\* it returned whatever content it is given, and a proof made by schnorr_prove
\* for one content is accepted for every other content.
C18_ContentIndependent ==
    (cell = CellV1 /\ pc = "verified") =>
        /\ \A content \in Contents : \A d \in sha256(oracle, content) :
              schnorr_verify_v1(proof, d % q, p, q, g) = result
        /\ ~forged => result = TRUE

\* a proof made for one content, accepted for another whose hash differs
C18_Witness ==
    /\ cell = CellV1 /\ pc = "verified" /\ ~forged
    /\ checked_content # file_content
    /\ oracle[checked_content] % q # h
    /\ x > 1 /\ proof.challenge > 0
    /\ result = TRUE

====
